---------------------------- MODULE Spec2Model ----------------------------
(***************************************************************************)
(* A model of the CTF link engine of libctf/ctf-link.c: registering input  *)
(* archives (ctf_link_add_ctf), merging them (ctf_link and the callbacks   *)
(* it drives) and emitting the result (ctf_link_write).                    *)
(*                                                                         *)
(* Strings are sequences of atoms, so that concatenation, prefix tests and *)
(* prefix stripping are computed: ".ctf" is <<".ctf">>, ".ctf." is         *)
(* <<".ctf", ".">> and ".ctf.a" is <<".ctf", ".", "a">>.                   *)
(***************************************************************************)
EXTENDS Integers, Sequences, FiniteSets, TLC

(* ------------------------------ bounds -------------------------------- *)

\* How many times ctf_link may be called in one behaviour.
MaxLinks == 1
MaxStrtabs == 2

\* How many times ctf_add_type_mapping may be called in one behaviour of the
\* type-mapping index on its own.
MaxRecords == 3

(* ------------------------- program constants -------------------------- *)

CTF_LINK_SHARE_UNCONFLICTED == 0
CTF_LINK_SHARE_DUPLICATED == 1

\* Error codes.  errno values and ECTF_ codes share one positive number
\* space (they are all handed to ctf_set_errno); CTF_ERR is ctf_add_type's
\* failure return.
EAGAIN == 11
ENOMEM == 12
EINVAL == 22
ECTF_CORRUPT == 1007
ECTF_CONFLICT == 1039
ECTF_ARNNAME == 1047
ECTF_NOTYET == 1049
ECTF_LINKADDEDLATE == 1050
CTF_ERR == -1

\* The largest parent-scoped type ID; IDs above it are child-scoped.  (The
\* v1 width of the format: the child bit is 0x8000.)
CTF_MAX_PTYPE == 32767

_CTF_SECTION == <<".ctf">>
CTF_DOT_PREFIX == <<".ctf", ".">>

(* ------------------------------ notation ------------------------------ *)

\* F(v), with v evaluated once: the sequencing of the steps of a procedure.
Let(v, F(_)) == CHOOSE r \in {F(x) : x \in {v}} : TRUE

(* ------------------------------ strings ------------------------------- *)

\* strncmp (s, p, strlen (p)) == 0
HasPrefix(s, p) == Len(s) >= Len(p) /\ SubSeq(s, 1, Len(p)) = p

\* s + strlen (p)
SkipPrefix(s, p) == SubSeq(s, Len(p) + 1, Len(s))

\* ctf_str_append (s, append)
ctf_str_append(s, append) == s \o append

(* --------------------------- type references -------------------------- *)

LCTF_TYPE_ISPARENT(id) == id <= CTF_MAX_PTYPE
LCTF_TYPE_TO_INDEX(id) == id % (CTF_MAX_PTYPE + 1)
LCTF_INDEX_TO_TYPE(idx, child) == IF child THEN idx + (CTF_MAX_PTYPE + 1) ELSE idx

(* ------------------------- input archives ----------------------------- *)

\* A type is a name ("" for an unnamed type) and a shape; two types are
\* structurally equivalent when both agree, and conflict when the names
\* agree (and are not empty) and the shapes differ.
TS1 == [name |-> "S", shape |-> 1]
TS2 == [name |-> "S", shape |-> 2]
TT == [name |-> "T", shape |-> 1]
TU == [name |-> "", shape |-> 1]

MainMember(types, vars) == [name |-> _CTF_SECTION, types |-> types, vars |-> vars]
CuMember(name, types, vars) == [name |-> name, types |-> types, vars |-> vars]
Var(name, type) == [name |-> name, type |-> type]

\* The archives an input can be.  openerr is what opening the default
\* member fails with when it fails for another reason than its absence.
ArcS1 == [members |-> << MainMember(<<TS1, TT>>, << Var("g", 1) >>) >>, openerr |-> 0]
ArcS2 == [members |-> << MainMember(<<TS2>>, << Var("g", 1) >>) >>, openerr |-> 0]
ArcCU == [members |-> << MainMember(<<TT>>, << Var("t", 1) >>),
                         CuMember(<<"cu2">>, <<TT>>, << >>),
                         CuMember(<<"cu">>, <<TS1>>,
                                  << Var("h", LCTF_INDEX_TO_TYPE(1, TRUE)) >>) >>,
          openerr |-> 0]
ArcNoMain == [members |-> << CuMember(<<"cu">>, <<TS2>>, << >>) >>, openerr |-> 0]
ArcUnnamed == [members |-> << MainMember(<<TU>>, << >>) >>, openerr |-> 0]
ArcBad == [members |-> << MainMember(<<TT>>, << >>) >>, openerr |-> ECTF_CORRUPT]

Archives == {ArcS1, ArcS2, ArcCU, ArcNoMain, ArcUnnamed, ArcBad}
FileNames == { <<"a">>, <<"b">> }

(* ----------------------------- containers ----------------------------- *)

\* Handles of input containers (what a mapping key's cltm_fp compares).
NULLFP == [file |-> << >>, member |-> << >>]
InHandle(file, member) == [file |-> file, member |-> member]

\* An opened input container: its handle, its content and its parent.
InFile(file, m) ==
  [id |-> InHandle(file, m.name), types |-> m.types, vars |-> m.vars,
   child |-> (m.name # _CTF_SECTION), parent |-> NULLFP]
NullInFile ==
  [id |-> NULLFP, types |-> << >>, vars |-> << >>, child |-> FALSE, parent |-> NULLFP]

\* The ID of the i-th type of an input container.
InTypeId(in, i) == LCTF_INDEX_TO_TYPE(i, in.child)

\* A freshly created writable container (ctf_create).  parent = 0 is no
\* parent; mapping is the type-mapping index (empty until first use);
\* strtab is the external string table, dirty the LCTF_DIRTY flag as the
\* string interning sets it.
EmptyFile ==
  [types |-> << >>, vars |-> << >>, parent |-> 0, cuname |-> << >>,
   mapping |-> {}, errno |-> 0, strtab |-> {}, dirty |-> FALSE]

\* The shared output, the container the link is run on.
SharedFp == 1

(* -------------------------- type-mapping index ------------------------ *)

\* ctf_dynhash_insert on the mapping: an equal key is replaced.
MappingInsert(tab, fp, idx, dst) ==
  {e \in tab : ~(e.fp = fp /\ e.idx = idx)} \cup {[fp |-> fp, idx |-> idx, dst |-> dst]}

\* ctf_dynhash_lookup on the mapping: the value, 0 when absent.
MappingLookup(tab, fp, idx) ==
  IF \E e \in tab : e.fp = fp /\ e.idx = idx
    THEN (CHOOSE e \in tab : e.fp = fp /\ e.idx = idx).dst
    ELSE 0

\* A ctf_add_type_mapping that records in dst_fp itself, wherever the
\* destination type lives.
ctf_add_type_mapping_NoDstWalk(files, src_fp, src_type, dst_fp, dst_type, oom) ==
  LET src == IF LCTF_TYPE_ISPARENT(src_type) /\ src_fp.parent # NULLFP
               THEN src_fp.parent ELSE src_fp.id
      sidx == LCTF_TYPE_TO_INDEX(src_type)
      didx == LCTF_TYPE_TO_INDEX(dst_type)
  IN IF oom THEN files
     ELSE [files EXCEPT ![dst_fp].mapping = MappingInsert(@, src, sidx, didx)]

\* ctf_add_type_mapping; when an allocation fails (oom) it does nothing.
ctf_add_type_mapping(files, src_fp, src_type, dst_fp, dst_type, oom) ==
  LET src == IF LCTF_TYPE_ISPARENT(src_type) /\ src_fp.parent # NULLFP
               THEN src_fp.parent ELSE src_fp.id
      sidx == LCTF_TYPE_TO_INDEX(src_type)
      dst == IF LCTF_TYPE_ISPARENT(dst_type) /\ files[dst_fp].parent # 0
               THEN files[dst_fp].parent ELSE dst_fp
      didx == LCTF_TYPE_TO_INDEX(dst_type)
  IN IF oom THEN files
     ELSE [files EXCEPT ![dst].mapping = MappingInsert(@, src, sidx, didx)]

\* A ctf_type_mapping that tries the parent of *dst_fp before *dst_fp.
ctf_type_mapping_ParentFirst(files, src_fp, src_type, dst_fp) ==
  LET src == IF LCTF_TYPE_ISPARENT(src_type) /\ src_fp.parent # NULLFP
               THEN src_fp.parent ELSE src_fp.id
      sidx == LCTF_TYPE_TO_INDEX(src_type)
      p == files[dst_fp].parent
      d1 == IF p # 0 THEN MappingLookup(files[p].mapping, src, sidx) ELSE 0
      d2 == MappingLookup(files[dst_fp].mapping, src, sidx)
  IN IF d1 # 0
       THEN [type |-> LCTF_INDEX_TO_TYPE(d1, files[p].parent # 0), dst_fp |-> p]
       ELSE [type |-> IF d2 # 0 THEN LCTF_INDEX_TO_TYPE(d2, p # 0) ELSE 0,
             dst_fp |-> dst_fp]

\* Returns the destination type (0 if none) and the resolved *dst_fp.
ctf_type_mapping(files, src_fp, src_type, dst_fp) ==
  LET src == IF LCTF_TYPE_ISPARENT(src_type) /\ src_fp.parent # NULLFP
               THEN src_fp.parent ELSE src_fp.id
      sidx == LCTF_TYPE_TO_INDEX(src_type)
      target_fp == dst_fp
      d1 == MappingLookup(files[target_fp].mapping, src, sidx)
  IN IF d1 # 0
       THEN [type |-> LCTF_INDEX_TO_TYPE(d1, files[target_fp].parent # 0),
             dst_fp |-> target_fp]
       ELSE IF files[target_fp].parent = 0
         THEN [type |-> 0, dst_fp |-> dst_fp]
         ELSE LET p == files[target_fp].parent
                  d2 == MappingLookup(files[p].mapping, src, sidx)
              IN [type |-> IF d2 # 0
                             THEN LCTF_INDEX_TO_TYPE(d2, files[p].parent # 0)
                             ELSE 0,
                  dst_fp |-> p]

(* ------------------- the container operations used -------------------- *)

\* The index of a type of the destination with this (non-empty) name, 0 if
\* there is none.
NamedIndex(types, name) ==
  IF name # "" /\ \E i \in 1..Len(types) : types[i].name = name
    THEN CHOOSE i \in 1..Len(types) : types[i].name = name
    ELSE 0

\* ctf_add_type: add the type src_type of src_fp to dst_fp.  A named type
\* already there with the same shape is reused, one with another shape is a
\* conflict (CTF_ERR, with ECTF_CONFLICT in the destination's error slot),
\* anything else (unnamed types included) is appended.  On success the
\* mapping is recorded.  fault names the allocation that fails, if one
\* does: the add itself ("add_type": CTF_ERR, with ENOMEM in the error slot)
\* or the recording of the mapping ("type_mapping").
ctf_add_type(files, dst_fp, src_fp, src_type, fault) ==
  LET t == src_fp.types[LCTF_TYPE_TO_INDEX(src_type)]
      dt == files[dst_fp].types
      hit == NamedIndex(dt, t.name)
      child == files[dst_fp].parent # 0
  IN IF fault = "add_type"
       THEN [files |-> [files EXCEPT ![dst_fp].errno = ENOMEM], ret |-> CTF_ERR]
       ELSE IF hit # 0 /\ dt[hit].shape # t.shape
       THEN [files |-> [files EXCEPT ![dst_fp].errno = ECTF_CONFLICT], ret |-> CTF_ERR]
       ELSE IF hit # 0
         THEN LET id == LCTF_INDEX_TO_TYPE(hit, child)
              IN [files |-> ctf_add_type_mapping(files, src_fp, src_type, dst_fp, id,
                                                 fault = "type_mapping"),
                  ret |-> id]
         ELSE LET id == LCTF_INDEX_TO_TYPE(Len(dt) + 1, child)
                  f2 == [files EXCEPT ![dst_fp].types = Append(@, t)]
              IN [files |-> ctf_add_type_mapping(f2, src_fp, src_type, dst_fp, id,
                                                 fault = "type_mapping"),
                  ret |-> id]

\* ctf_dynhash_lookup (fp->ctf_dvhash, name): the variable's type, 0 if the
\* container has no variable of this name.
VarLookup(file, name) ==
  IF \E i \in 1..Len(file.vars) : file.vars[i].name = name
    THEN file.vars[CHOOSE i \in 1..Len(file.vars) : file.vars[i].name = name].type
    ELSE 0

\* ctf_add_variable: a name already bound in the container is refused.
ctf_add_variable(files, fp, name, ref) ==
  IF VarLookup(files[fp], name) # 0
    THEN files
    ELSE [files EXCEPT ![fp].vars = Append(@, Var(name, ref))]

\* ctf_import (fp, pfp) on an output container.
ctf_import(files, fp, pfp) == [files EXCEPT ![fp].parent = pfp]

\* ctf_cuname_set
ctf_cuname_set(files, fp, name) == [files EXCEPT ![fp].cuname = name]

\* ctf_set_errno (fp, err): store err in the container's error slot; the
\* call itself yields CTF_ERR.
ctf_set_errno(files, fp, err) == [files EXCEPT ![fp].errno = err]

\* ctf_arc_open_by_name (arc, NULL, &err): open the default member.
ctf_arc_open_by_name(file, arc) ==
  IF arc.openerr # 0
    THEN [fp |-> NullInFile, err |-> arc.openerr]
    ELSE IF \E i \in 1..Len(arc.members) : arc.members[i].name = _CTF_SECTION
      THEN [fp |-> InFile(file, arc.members[CHOOSE i \in 1..Len(arc.members) :
                                               arc.members[i].name = _CTF_SECTION]),
            err |-> 0]
      ELSE [fp |-> NullInFile, err |-> ECTF_ARNNAME]

(* ------------------------- the two hash tables ------------------------ *)

\* A ctf_dynhash_t pointer: NULL, or a table.  The link input set is a map
\* from file names to archives.  The link output set is a sequence of
\* entries in insertion order; an entry carries, with its key, whether the
\* key string is still allocated.
NullHash == [null |-> TRUE, tab |-> << >>]
EmptyHash == [null |-> FALSE, tab |-> << >>]

\* ctf_dynhash_insert on the link input set: an equal name replaces the
\* archive held under it.
InputsInsert(h, name, arc) ==
  [h EXCEPT !.tab = [k \in (DOMAIN h.tab) \cup {name} |->
                       IF k = name THEN arc ELSE h.tab[k]]]

\* What comparing the stored key of entry i with arcname yields.  A key that
\* was freed is read after free: its bytes may be intact, may be clobbered,
\* or (for the key freed last) may be the very allocation arcname now has.
KeyMatches(tab, i, arcname, uaf) ==
  IF tab[i].live
    THEN tab[i].key = arcname
    ELSE CASE uaf = "intact" -> tab[i].key = arcname
           [] uaf = "clobbered" -> FALSE
           [] OTHER -> \A j \in (i + 1)..Len(tab) : tab[j].live

\* ctf_dynhash_lookup (fp->ctf_link_outputs, arcname): the container, 0 if
\* none.
OutputsLookup(h, arcname, uaf) ==
  IF \E i \in 1..Len(h.tab) : KeyMatches(h.tab, i, arcname, uaf)
    THEN h.tab[CHOOSE i \in 1..Len(h.tab) :
                 /\ KeyMatches(h.tab, i, arcname, uaf)
                 /\ \A j \in 1..(i - 1) : ~KeyMatches(h.tab, j, arcname, uaf)].fp
    ELSE 0

\* ctf_dynhash_insert (fp->ctf_link_outputs, arcname, per_cu_out_fp), after a
\* failed lookup: the arcname pointer itself becomes the key.
OutputsInsert(h, arcname, fp) ==
  [h EXCEPT !.tab = Append(@, [key |-> arcname, live |-> TRUE, fp |-> fp])]

\* free (arg->arcname): the keys that are this very string die with it.
FreeArcname(h, arcname) ==
  [h EXCEPT !.tab = [i \in 1..Len(h.tab) |->
                       IF h.tab[i].live /\ h.tab[i].key = arcname
                         THEN [h.tab[i] EXCEPT !.live = FALSE] ELSE h.tab[i]]]

(* ------------------------------ the link ------------------------------ *)

\* ctf_link_in_member_cb_arg_t after memset, out_fp and share_mode set.
InitArg(share_mode) ==
  [out_fp |-> SharedFp, file_name |-> << >>, in_fp |-> NullInFile,
   main_input_fp |-> NullInFile, cu_name |-> << >>, arcname |-> << >>,
   done_main_member |-> FALSE, share_mode |-> share_mode,
   in_input_cu_file |-> FALSE, err |-> 0]

\* A per-CU half that forgets to ctf_import the shared output into a per-CU
\* container it creates.
LinkOneTypePerCu_NoImport(st, type, env) ==
  LET arg == st.arg
      found == OutputsLookup(st.outputs, arg.arcname, env.uaf)
      fresh == Len(st.files) + 1
      created == Append(st.files, EmptyFile)
      inserted == ctf_cuname_set(created, fresh, arg.cu_name)
      r == ctf_add_type(IF found # 0 THEN st.files ELSE inserted,
                        IF found # 0 THEN found ELSE fresh, arg.in_fp, type,
                        env.fault)
  IN IF found = 0 /\ env.fault = "ctf_create"
       THEN [st EXCEPT !.rc = ENOMEM]
       ELSE IF found = 0 /\ env.fault = "outputs_insert"
         THEN [st EXCEPT !.files = created, !.rc = ENOMEM]
         ELSE [st EXCEPT !.files = r.files,
                         !.outputs = IF found # 0 THEN @
                                     ELSE OutputsInsert(@, arg.arcname, fresh),
                         !.calls = IF r.ret > -1 THEN @
                                   ELSE [@ EXCEPT ![Len(@)].addfail = TRUE],
                         !.rc = IF r.ret > -1 THEN 0 ELSE r.ret]

\* The per-CU half of ctf_link_one_type (from the lookup of the per-CU
\* output on).
LinkOneTypePerCu(st, type, env) ==
  LET arg == st.arg
      found == OutputsLookup(st.outputs, arg.arcname, env.uaf)
      fresh == Len(st.files) + 1
      created == Append(st.files, EmptyFile)
      inserted == ctf_cuname_set(ctf_import(created, fresh, arg.out_fp),
                                 fresh, arg.cu_name)
      r == ctf_add_type(IF found # 0 THEN st.files ELSE inserted,
                        IF found # 0 THEN found ELSE fresh, arg.in_fp, type,
                        env.fault)
  IN IF found = 0 /\ env.fault = "ctf_create"
       THEN [st EXCEPT !.rc = ENOMEM]
       ELSE IF found = 0 /\ env.fault = "outputs_insert"
         THEN [st EXCEPT !.files = created, !.rc = ENOMEM]
         ELSE [st EXCEPT !.files = r.files,
                         !.outputs = IF found # 0 THEN @
                                     ELSE OutputsInsert(@, arg.arcname, fresh),
                         !.calls = IF r.ret > -1 THEN @
                                   ELSE [@ EXCEPT ![Len(@)].addfail = TRUE],
                         !.rc = IF r.ret > -1 THEN 0 ELSE r.ret]

\* The first half of ctf_link_one_type: the add to the shared output.  (The
\* arcname is noted when the add fails with ECTF_CONFLICT in the shared
\* output's error slot.)
LinkOneTypeShared(st, type, env) ==
  Let(ctf_add_type(st.files, st.arg.out_fp, st.arg.in_fp, type, env.fault),
      LAMBDA r :
        Let([st EXCEPT !.files = r.files,
                       !.conflicted =
                         IF r.ret = CTF_ERR
                            /\ r.files[st.arg.out_fp].errno = ECTF_CONFLICT
                           THEN @ \cup {st.arg.arcname} ELSE @,
                       !.calls =
                         IF r.ret = CTF_ERR
                            /\ r.files[st.arg.out_fp].errno # ECTF_CONFLICT
                           THEN [@ EXCEPT ![Len(@)].addfail = TRUE] ELSE @],
            LAMBDA st1 : IF r.ret > -1
                           THEN [st1 EXCEPT !.rc = 0]
                           ELSE IF r.ret # ECTF_CONFLICT
                             THEN [st1 EXCEPT !.rc = r.ret]
                             ELSE LinkOneTypePerCu(st1, type, env)))

\* A ctf_link_one_type that sends every type to the per-CU output.
ctf_link_one_type_AlwaysPerCu(st, type, env) ==
  IF st.arg.share_mode # CTF_LINK_SHARE_UNCONFLICTED
    THEN [st EXCEPT !.rc = ECTF_NOTYET]
    ELSE LinkOneTypePerCu(st, type, env)

ctf_link_one_type(st, type, env) ==
  IF st.arg.share_mode # CTF_LINK_SHARE_UNCONFLICTED
    THEN [st EXCEPT !.rc = ECTF_NOTYET]
    ELSE IF ~st.arg.in_input_cu_file
      THEN LinkOneTypeShared(st, type, env)
      ELSE LinkOneTypePerCu(st, type, env)

\* No output container maps the type of in_fp: neither the shared one nor
\* a per-CU one.
Unmapped(files, outputs, in_fp, type) ==
  LET src == IF LCTF_TYPE_ISPARENT(type) /\ in_fp.parent # NULLFP
               THEN in_fp.parent ELSE in_fp.id
  IN \A fp \in {SharedFp} \cup {outputs.tab[i].fp : i \in 1..Len(outputs.tab)} :
       MappingLookup(files[fp].mapping, src, LCTF_TYPE_TO_INDEX(type)) = 0

\* ctf_link_one_variable.  (A variable that gets EINVAL while no output
\* container maps its type is noted in the log of the member.)
ctf_link_one_variable(st, name, type) ==
  LET arg == st.arg
      files == st.files
      hasparent == files[arg.out_fp].parent # 0
      m1 == IF hasparent
              THEN ctf_type_mapping(files, arg.in_fp, type, files[arg.out_fp].parent)
              ELSE [type |-> 0, dst_fp |-> 0]
      dvd == IF m1.type # 0 THEN VarLookup(files[m1.dst_fp], name) ELSE 0
      m2 == IF m1.type # 0 /\ hasparent
              THEN [type |-> LCTF_INDEX_TO_TYPE(LCTF_TYPE_TO_INDEX(m1.type), TRUE),
                    dst_fp |-> m1.dst_fp]
              ELSE ctf_type_mapping(files, arg.in_fp, type, arg.out_fp)
  IN IF hasparent /\ m1.type # 0 /\ dvd # 0 /\ dvd = m1.type
       THEN [st EXCEPT !.rc = 0]
       ELSE IF hasparent /\ m1.type # 0 /\ dvd = 0
         THEN [st EXCEPT !.files = ctf_add_variable(files, m1.dst_fp, name, m1.type),
                         !.rc = 0]
         ELSE IF m2.type = 0
           THEN [st EXCEPT !.rc = EINVAL,
                           !.calls = IF Unmapped(files, st.outputs, arg.in_fp, type)
                                       THEN [@ EXCEPT ![Len(@)].novarmap = TRUE]
                                       ELSE @]
           ELSE [st EXCEPT !.files = ctf_add_variable(files, m2.dst_fp, name, m2.type),
                           !.rc = 0]

\* ctf_type_iter_all (in_fp, ctf_link_one_type, arg), from the i-th type on:
\* stops at the first callback that does not return 0.
RECURSIVE ctf_type_iter_all(_, _, _)
ctf_type_iter_all(st, i, env) ==
  IF i > Len(st.arg.in_fp.types)
    THEN [st EXCEPT !.rc = 0]
    ELSE Let(ctf_link_one_type(st, InTypeId(st.arg.in_fp, i), env),
             LAMBDA s2 : IF s2.rc # 0 THEN s2 ELSE ctf_type_iter_all(s2, i + 1, env))

\* ctf_variable_iter (in_fp, ctf_link_one_variable, arg), from the i-th
\* variable on.
RECURSIVE ctf_variable_iter(_, _)
ctf_variable_iter(st, i) ==
  IF i > Len(st.arg.in_fp.vars)
    THEN [st EXCEPT !.rc = 0]
    ELSE Let(ctf_link_one_variable(st, st.arg.in_fp.vars[i].name,
                                   st.arg.in_fp.vars[i].type),
             LAMBDA s2 : IF s2.rc # 0 THEN s2 ELSE ctf_variable_iter(s2, i + 1))

\* An entry that treats every member, the default one included, as a member
\* of another name: its name is the arcname and its types go per-CU.
MemberEnter_AllAsCu(st, in_fp, name) ==
  LET arg == st.arg
      cu_name == IF HasPrefix(name, CTF_DOT_PREFIX)
                   THEN SkipPrefix(name, CTF_DOT_PREFIX) ELSE name
  IN [st EXCEPT !.arg.arcname = name,
                !.arg.in_input_cu_file = TRUE,
                !.arg.cu_name = cu_name,
                !.arg.in_fp = in_fp,
                !.calls = Append(@, [file |-> arg.file_name, name |-> name,
                                     in_fp |-> in_fp.id, in_input_cu_file |-> TRUE,
                                     rc |-> 0, addfail |-> FALSE,
                                     novarmap |-> FALSE])]

\* ctf_link_one_input_archive_member up to its iterations: the arcname, the
\* import of the main member, the CU name.
MemberEnter(st, in_fp, name) ==
  LET arg == st.arg
      ismain == name = _CTF_SECTION
      arcname == IF ismain
                   THEN ctf_str_append(CTF_DOT_PREFIX, arg.file_name)
                   ELSE name
      cu_name == IF HasPrefix(arcname, CTF_DOT_PREFIX)
                   THEN SkipPrefix(arcname, CTF_DOT_PREFIX) ELSE arcname
      in == IF ismain THEN in_fp ELSE [in_fp EXCEPT !.parent = arg.main_input_fp.id]
      in_cu == IF ismain THEN arg.in_input_cu_file ELSE TRUE
  IN [st EXCEPT !.arg.arcname = arcname,
                !.arg.in_input_cu_file = in_cu,
                !.arg.cu_name = cu_name,
                !.arg.in_fp = in,
                !.calls = Append(@, [file |-> arg.file_name, name |-> name,
                                     in_fp |-> in.id, in_input_cu_file |-> in_cu,
                                     rc |-> 0, addfail |-> FALSE,
                                     novarmap |-> FALSE])]

\* Its two iterations.
MemberIterate(st, env) ==
  Let(ctf_type_iter_all(st, 1, env),
      LAMBDA s2 : IF s2.rc = 0 THEN ctf_variable_iter(s2, 1) ELSE s2)

\* An exit that leaves the in_input_cu_file flag as it is.
MemberLeave_NoClear(st) ==
  [st EXCEPT !.outputs = FreeArcname(@, st.arg.arcname),
             !.calls[Len(st.calls)].rc = st.rc]

\* Its exit.
MemberLeave(st) ==
  [st EXCEPT !.arg.in_input_cu_file = FALSE,
             !.outputs = FreeArcname(@, st.arg.arcname),
             !.calls[Len(st.calls)].rc = st.rc]

\* in_fp is NULL when the archive has no default member: the iteration
\* dereferences it.  The process dies there, or the read goes through and
\* finds nothing to iterate.
ctf_link_one_input_archive_member(st, in_fp, name, env) ==
  IF name = _CTF_SECTION /\ st.arg.done_main_member
    THEN [st EXCEPT !.rc = 0]
    ELSE Let(MemberEnter(st, in_fp, name),
             LAMBDA s1 : IF s1.arg.in_fp.id = NULLFP /\ env.nullderef = "crash"
                           THEN [s1 EXCEPT !.crashed = TRUE, !.rc = 0]
                           ELSE Let(MemberIterate(s1, env), MemberLeave))

\* ctf_archive_iter (arc, ctf_link_one_input_archive_member, arg), from the
\* i-th member on: every member in archive order, until a callback does not
\* return 0.
RECURSIVE ctf_archive_iter(_, _, _, _)
ctf_archive_iter(st, arc, i, env) ==
  IF i > Len(arc.members)
    THEN [st EXCEPT !.rc = 0]
    ELSE Let(ctf_link_one_input_archive_member(
               st, InFile(st.arg.file_name, arc.members[i]),
               arc.members[i].name, env),
             LAMBDA s2 : IF s2.rc # 0 THEN s2 ELSE ctf_archive_iter(s2, arc, i + 1, env))

\* ctf_link_one_input_archive once the main member is open (or absent).
ArchiveMembers(st, arc, env) ==
  Let(ctf_link_one_input_archive_member(st, st.arg.main_input_fp, _CTF_SECTION, env),
      LAMBDA s1 :
        IF s1.crashed
          THEN s1
          ELSE Let(ctf_archive_iter([s1 EXCEPT !.arg.done_main_member = TRUE],
                                    arc, 1, env),
                   LAMBDA s3 : IF s3.rc < 0 THEN [s3 EXCEPT !.arg.err = s3.rc] ELSE s3))

\* A ctf_link_one_input_archive that makes the link fail when the default
\* member cannot be opened.
ctf_link_one_input_archive_OpenErrorFatal(st, key, arc, env) ==
  Let(ctf_arc_open_by_name(key, arc),
      LAMBDA open :
        Let([st EXCEPT !.arg.file_name = key,
                       !.arg.done_main_member = FALSE,
                       !.arg.main_input_fp = open.fp],
            LAMBDA s0 : IF open.fp.id = NULLFP /\ open.err # ECTF_ARNNAME
                          THEN [s0 EXCEPT !.skipped =
                                  @ \cup {[file |-> key, at |-> Len(s0.calls)]},
                                          !.arg.err = open.err]
                          ELSE ArchiveMembers(s0, arc, env)))

\* ctf_link_one_input_archive: the default member is opened; the input is
\* skipped when that fails for another reason than its absence.
ctf_link_one_input_archive(st, key, arc, env) ==
  Let(ctf_arc_open_by_name(key, arc),
      LAMBDA open :
        Let([st EXCEPT !.arg.file_name = key,
                       !.arg.done_main_member = FALSE,
                       !.arg.main_input_fp = open.fp],
            LAMBDA s0 : IF open.fp.id = NULLFP /\ open.err # ECTF_ARNNAME
                          THEN [s0 EXCEPT !.skipped =
                                  @ \cup {[file |-> key, at |-> Len(s0.calls)]}]
                          ELSE ArchiveMembers(s0, arc, env)))

\* ctf_dynhash_iter (fp->ctf_link_inputs, ctf_link_one_input_archive, &arg)
\* in the order the table yields its keys, from the i-th on.
RECURSIVE InputsIter(_, _, _, _, _)
InputsIter(st, tab, order, i, env) ==
  IF i > Len(order) \/ st.crashed
    THEN st
    ELSE Let(ctf_link_one_input_archive(st, order[i], tab[order[i]], env),
             LAMBDA s2 : InputsIter(s2, tab, order, i + 1, env))

\* The result of a ctf_link that did not get to iterate over the inputs.
LinkEarly(files, outputs, ret) ==
  [files |-> files, outputs |-> outputs, conflicted |-> {}, calls |-> << >>,
   skipped |-> {}, crashed |-> FALSE, ret |-> ret]

\* What ctf_link hands back once the iteration is over: arg.err is promoted
\* into the shared container.
LinkReturn(st) ==
  [files |-> IF st.arg.err # 0 /\ ~st.crashed
               THEN ctf_set_errno(st.files, SharedFp, st.arg.err)
               ELSE st.files,
   outputs |-> st.outputs, conflicted |-> st.conflicted,
   calls |-> st.calls, skipped |-> st.skipped, crashed |-> st.crashed,
   ret |-> IF st.arg.err # 0 THEN CTF_ERR ELSE 0]

\* The second half of ctf_link: the iteration over the link input set and
\* the promotion of arg.err.
LinkIterate(files, inputs, outputs, share_mode, order, env) ==
  Let([files |-> files, outputs |-> outputs, arg |-> InitArg(share_mode),
       conflicted |-> {}, calls |-> << >>, skipped |-> {}, crashed |-> FALSE,
       rc |-> 0],
      LAMBDA st0 : Let(InputsIter(st0, inputs.tab, order, 1, env), LinkReturn))

\* A ctf_link that creates the link output set only with its first per-CU
\* container.
ctf_link_LazyOutputs(files, inputs, outputs, share_mode, order, env) ==
  IF inputs.null
    THEN LinkEarly(files, outputs, 0)
    ELSE Let(LinkIterate(files, inputs, IF outputs.null THEN EmptyHash ELSE outputs,
                         share_mode, order, env),
             LAMBDA r : IF outputs.null /\ r.outputs.tab = << >>
                          THEN [r EXCEPT !.outputs = NullHash]
                          ELSE r)

\* ctf_link (fp, share_mode): the state it leaves and what it returns.
ctf_link(files, inputs, outputs, share_mode, order, env) ==
  IF inputs.null
    THEN LinkEarly(files, outputs, 0)
    ELSE IF outputs.null /\ env.fault = "outputs_create"
      THEN LinkEarly(ctf_set_errno(files, SharedFp, ENOMEM), outputs, CTF_ERR)
      ELSE LinkIterate(files, inputs, IF outputs.null THEN EmptyHash ELSE outputs,
                       share_mode, order, env)

(* ----------------------- registering an input ------------------------- *)

\* A ctf_link_add_ctf that does not look at the link output set.
ctf_link_add_ctf_NoLateCheck(files, inputs, outputs, name, arc, oom) ==
  LET created == IF inputs.null
                   THEN (IF oom = "create" THEN NullHash ELSE EmptyHash)
                   ELSE inputs
  IN IF created.null \/ oom = "strdup" \/ oom = "insert"
       THEN [files |-> ctf_set_errno(files, SharedFp, ENOMEM),
             inputs |-> NullHash, ret |-> CTF_ERR]
       ELSE [files |-> files, inputs |-> InputsInsert(created, name, arc),
             ret |-> 0]

\* ctf_link_add_ctf (fp, ctf, name).  oom names the allocation that fails,
\* if one does.
ctf_link_add_ctf(files, inputs, outputs, name, arc, oom) ==
  LET created == IF inputs.null
                   THEN (IF oom = "create" THEN NullHash ELSE EmptyHash)
                   ELSE inputs
  IN IF ~outputs.null
       THEN [files |-> ctf_set_errno(files, SharedFp, ECTF_LINKADDEDLATE),
             inputs |-> inputs, ret |-> CTF_ERR]
       ELSE IF created.null \/ oom = "strdup" \/ oom = "insert"
         THEN [files |-> ctf_set_errno(files, SharedFp, ENOMEM),
               inputs |-> NullHash, ret |-> CTF_ERR]
         ELSE [files |-> files, inputs |-> InputsInsert(created, name, arc),
               ret |-> 0]

(* ------------------------ external string interning ------------------ *)

\* The (string, offset) pairs a producer may yield, and the producers.
Foo == [str |-> "foo", offset |-> 17]
Bar == [str |-> "bar", offset |-> 34]
Producers == { << >>, <<Foo>>, <<Foo, Bar>> }

\* ctf_str_add_external (fp, str, offset): the pair is in fp's external
\* string table afterwards, unless the allocation fails (ok = FALSE).
ctf_str_add_external(files, fp, pair, ok) ==
  IF ok THEN [files EXCEPT ![fp].strtab = @ \cup {pair}] ELSE files

\* ctf_link_intern_extern_string over the link output set, from the j-th
\* entry on (nothing to visit when the set is absent).  st carries the
\* containers and iter_arg.err; failed holds the interning attempts (pair
\* index, container) whose allocation fails.
RECURSIVE ctf_link_intern_extern_string(_, _, _, _, _, _)
ctf_link_intern_extern_string(st, outputs, j, pair, i, failed) ==
  IF outputs.null \/ j > Len(outputs.tab)
    THEN st
    ELSE Let(outputs.tab[j].fp,
      LAMBDA fp :
        Let([files |-> ctf_str_add_external(
                         [st.files EXCEPT ![fp].dirty = TRUE], fp, pair,
                         <<i, fp>> \notin failed),
             err |-> IF <<i, fp>> \in failed THEN ENOMEM ELSE st.err],
            LAMBDA st1 :
              ctf_link_intern_extern_string(st1, outputs, j + 1, pair, i, failed)))

\* A loop body that interns the pair in the shared container only.
StrtabPair_NoFanOut(st, outputs, pair, i, failed) ==
  [files |-> ctf_str_add_external(
               [st.files EXCEPT ![SharedFp].dirty = TRUE], SharedFp, pair,
               <<i, SharedFp>> \notin failed),
   err |-> IF <<i, SharedFp>> \in failed THEN ENOMEM ELSE st.err]

\* A loop body that takes iter_arg.err as the error whether it is set or not.
StrtabPair_ErrOverwritten(st, outputs, pair, i, failed) ==
  Let(ctf_link_intern_extern_string(
        [files |-> ctf_str_add_external(
                     [st.files EXCEPT ![SharedFp].dirty = TRUE], SharedFp, pair,
                     <<i, SharedFp>> \notin failed),
         err |-> 0],
        outputs, 1, pair, i, failed),
      LAMBDA it : [files |-> it.files, err |-> it.err])

\* The body of the loop of ctf_link_add_strtab, for the i-th pair pulled.
\* st carries the containers and err.
StrtabPair(st, outputs, pair, i, failed) ==
  Let(ctf_link_intern_extern_string(
        [files |-> ctf_str_add_external(
                     [st.files EXCEPT ![SharedFp].dirty = TRUE], SharedFp, pair,
                     <<i, SharedFp>> \notin failed),
         err |-> 0],
        outputs, 1, pair, i, failed),
      LAMBDA it :
        [files |-> it.files,
         err |-> IF it.err # 0 THEN it.err
                 ELSE IF <<i, SharedFp>> \in failed THEN ENOMEM ELSE st.err])

\* The loop of ctf_link_add_strtab from the i-th pull on.
RECURSIVE StrtabLoop(_, _, _, _, _)
StrtabLoop(st, outputs, producer, i, failed) ==
  IF i > Len(producer)
    THEN st
    ELSE Let(StrtabPair(st, outputs, producer[i], i, failed),
             LAMBDA st1 : StrtabLoop(st1, outputs, producer, i + 1, failed))

\* ctf_link_add_strtab (fp, add_string, arg).
ctf_link_add_strtab(files, outputs, producer, failed) ==
  Let(StrtabLoop([files |-> files, err |-> 0], outputs, producer, 1, failed),
      LAMBDA st : [files |-> st.files, ret |-> st.err])

(* ----------------------------- the writer ----------------------------- *)

\* ctf_accumulate_archive_names over the link output set, from the i-th
\* entry on.  acc is the ctf_name_list_accum_cb_arg_t; fail names the step
\* that fails (in every entry it is reached in), if one does.  When the
\* realloc of the file list fails, the name list realloc has just handed out
\* has been stored nowhere (arg->names is only set at the end): lost.
RECURSIVE AccumulateIter(_, _, _, _)
AccumulateIter(acc, tab, i, fail) ==
  IF i > Len(tab)
    THEN acc
    ELSE AccumulateIter(
           IF fail = "acc_update"
             THEN [acc EXCEPT !.err = CTF_ERR]
             ELSE IF fail = "acc_names"
               THEN [acc EXCEPT !.err = ENOMEM]
               ELSE IF fail = "acc_files"
                 THEN [acc EXCEPT !.err = ENOMEM, !.lost = TRUE]
                 ELSE [acc EXCEPT !.names = Append(@, tab[i].key),
                                  !.files = Append(@, tab[i].fp),
                                  !.i = @ + 1],
           tab, i + 1, fail)

\* The accumulation ctf_link_write starts with: the link output set's
\* names and containers (none when there is no link output set).
Accumulate(outputs, fail) ==
  LET acc0 == [names |-> << >>, files |-> << >>, i |-> 0, err |-> 0,
               lost |-> FALSE]
  IN IF outputs.null THEN acc0 ELSE AccumulateIter(acc0, outputs.tab, 1, fail)

\* The code of the failure that fail names: what ctf_update, ctf_write_mem
\* and ctf_arc_write_fd leave in the error slot of the container they fail
\* on, and errno for the C library's failures.
FailCode(fail) ==
  CASE fail \in {"update", "acc_update"} -> EAGAIN
    [] fail \in {"seek", "read", "arc_write"} -> EINVAL
    [] OTHER -> ENOMEM

\* ctf_link_write once the accumulation is done; single is its test for
\* "no extra outputs".  It yields what is returned (buf: a buffer or NULL),
\* the path taken, the member list handed to the archive writer, whether
\* *size was stored, whether the temporary file is left open, what the
\* shared container's error slot is set to (errno), the code of the failure
\* (code) and the allocations no free reaches (leaked).  fps is the file
\* list as it stands after the shared container was put in front.
WriteWith(acc, single, fail, fps) ==
  LET names == <<_CTF_SECTION>> \o acc.names
      Failed(err, open) ==
        [buf |-> FALSE, path |-> "error", names |-> << >>, files |-> << >>,
         size_set |-> FALSE, tmp_open |-> open, errno |-> err,
         code |-> FailCode(fail),
         leaked |-> IF acc.lost THEN {"names"} ELSE {}]
  IN IF fail = "update"
       THEN Failed(CTF_ERR, FALSE)
       ELSE IF acc.err # 0
         THEN Failed(acc.err, FALSE)
         ELSE IF single
           THEN [buf |-> fail # "write_mem", path |-> "single", names |-> << >>,
                 files |-> <<SharedFp>>, size_set |-> fail # "write_mem",
                 tmp_open |-> FALSE,
                 errno |-> IF fail = "write_mem" THEN FailCode(fail) ELSE 0,
                 code |-> IF fail = "write_mem" THEN FailCode(fail) ELSE 0,
                 leaked |-> {}]
           ELSE IF fail \in {"names", "files", "tmpfile", "malloc"}
             THEN Failed(ENOMEM, FALSE)
             ELSE IF fail = "arc_write"
               THEN Failed(CTF_ERR, FALSE)
               ELSE IF fail \in {"seek", "read"}
                 THEN Failed(EINVAL, FALSE)
                 ELSE [buf |-> TRUE, path |-> "archive", names |-> names,
                       files |-> fps, size_set |-> FALSE, tmp_open |-> TRUE,
                       errno |-> 0, code |-> 0, leaked |-> {}]

\* A writer that puts the shared container in front of the file list without
\* moving the accumulated containers up first.
WriteFrom_NoShift(acc, single, fail) ==
  WriteWith(acc, single, fail,
            IF acc.files = << >> THEN <<SharedFp>>
            ELSE <<SharedFp>> \o Tail(acc.files) \o <<0>>)

\* memmove (&(arg.files[1]), arg.files, ...); arg.files[0] = fp.
WriteFrom(acc, single, fail) ==
  WriteWith(acc, single, fail, <<SharedFp>> \o acc.files)

\* A ctf_link_write that writes an archive whenever the link output set
\* exists, even when it is empty.
ctf_link_write_ArchiveIfOutputs(files, outputs, fail) ==
  WriteFrom(Accumulate(outputs, fail), outputs.null, fail)

\* ctf_link_write (fp, size, threshold).
ctf_link_write(files, outputs, fail) ==
  WriteFrom(Accumulate(outputs, fail), Accumulate(outputs, fail).i = 0, fail)

(* ------------------------------ the state ----------------------------- *)

VARIABLES
  files,             \* the writable containers; files[SharedFp] is the shared output
  ctf_link_inputs,   \* fp->ctf_link_inputs
  ctf_link_outputs,  \* fp->ctf_link_outputs
  last,              \* the last call: its operation, its share mode, whether an
                     \* allocation or I/O failure was injected, its result, and
                     \* (ctf_link) the inputs it skipped, each with the number of
                     \* members processed before
  conflicted,        \* arcnames for which an add to the shared output conflicted
  calls,             \* the members the last ctf_link handed to the per-member procedure
  crashed,           \* the process died (NULL dereference in ctf_link)
  nlinks,            \* calls of ctf_link so far
  written,           \* what ctf_link_write gave, when it was the last call
  interning,         \* what the last ctf_link_add_strtab was given, when it was the last call
  nstrtabs,          \* calls of ctf_link_add_strtab so far
  mapped,            \* the last direct call of ctf_add_type_mapping or ctf_type_mapping:
                     \* its arguments and what it gave
  nrecords           \* direct calls of ctf_add_type_mapping so far

vars == <<files, ctf_link_inputs, ctf_link_outputs, last, conflicted, calls,
          crashed, nlinks, written, interning, nstrtabs, mapped, nrecords>>

NoInterning == [producer |-> << >>, failed |-> {}]

NoMapping ==
  [op |-> "none", src |-> NullInFile, st |-> 0, dst |-> 0, dt |-> 0, oom |-> FALSE,
   prev |-> 0, shadowed |-> FALSE, type |-> 0, dst_fp |-> 0, name |-> "", rc |-> 0]

NoWrite ==
  [buf |-> FALSE, path |-> "none", names |-> << >>, files |-> << >>,
   size_set |-> FALSE, tmp_open |-> FALSE, errno |-> 0, code |-> 0,
   leaked |-> {}]

NoCall == [op |-> "none", ret |-> 0, share_mode |-> 0, fault |-> FALSE, skipped |-> {}]

Init ==
  /\ files = <<EmptyFile>>
  /\ ctf_link_inputs = NullHash
  /\ ctf_link_outputs = NullHash
  /\ last = NoCall
  /\ conflicted = {}
  /\ calls = << >>
  /\ crashed = FALSE
  /\ nlinks = 0
  /\ written = NoWrite
  /\ interning = NoInterning
  /\ nstrtabs = 0
  /\ mapped = NoMapping
  /\ nrecords = 0

OomPoints == {"none", "create", "strdup", "insert"}
Faults == {"none", "outputs_create", "ctf_create", "outputs_insert", "add_type",
           "type_mapping"}
UafReads == {"intact", "clobbered", "aliased"}
NullDerefs == {"crash", "empty"}

\* The orders in which a table may yield its keys.
Orders(tab) ==
  LET n == Cardinality(DOMAIN tab)
  IN {o \in [1..n -> DOMAIN tab] : \A i, j \in 1..n : o[i] = o[j] => i = j}

\* What may go wrong during one ctf_link: an allocation failure, and what the
\* reads of freed keys and of a NULL container turn out to do.
Envs ==
  {e \in [fault : Faults, uaf : UafReads, nullderef : NullDerefs] :
     e.fault = "none" \/ (e.uaf = "intact" /\ e.nullderef = "empty")}

WriteFails == {"none", "update", "acc_update", "acc_names", "acc_files", "write_mem",
               "names", "files", "tmpfile", "arc_write", "seek", "malloc", "read"}

AddCtf(name, arc, oom) ==
  /\ ~crashed
  /\ \E r \in {ctf_link_add_ctf(files, ctf_link_inputs, ctf_link_outputs, name, arc, oom)} :
        /\ files' = r.files
        /\ ctf_link_inputs' = r.inputs
        /\ last' = [op |-> "add_ctf", ret |-> r.ret, share_mode |-> 0,
                    fault |-> oom # "none", skipped |-> {}]
  /\ written' = NoWrite
  /\ interning' = NoInterning
  /\ UNCHANGED <<ctf_link_outputs, conflicted, calls, crashed, nlinks, nstrtabs,
                 mapped, nrecords>>

Link(share_mode, order, env) ==
  /\ ~crashed
  /\ nlinks < MaxLinks
  /\ \E r \in {ctf_link(files, ctf_link_inputs, ctf_link_outputs, share_mode, order, env)} :
        /\ files' = r.files
        /\ ctf_link_outputs' = r.outputs
        /\ conflicted' = conflicted \cup r.conflicted
        /\ calls' = r.calls
        /\ crashed' = r.crashed
        /\ last' = [op |-> "link", ret |-> r.ret, share_mode |-> share_mode,
                    fault |-> env.fault # "none", skipped |-> r.skipped]
  /\ nlinks' = nlinks + 1
  /\ written' = NoWrite
  /\ interning' = NoInterning
  /\ UNCHANGED <<ctf_link_inputs, nstrtabs, mapped, nrecords>>

Write(fail) ==
  /\ ~crashed
  /\ \E r \in {ctf_link_write(files, ctf_link_outputs, fail)} :
        /\ written' = r
        /\ files' = IF ~r.buf
                      THEN ctf_set_errno(files, SharedFp, r.errno) ELSE files
        /\ last' = [op |-> "write", ret |-> IF r.buf THEN 0 ELSE CTF_ERR,
                    share_mode |-> 0, fault |-> fail # "none", skipped |-> {}]
  /\ interning' = NoInterning
  /\ UNCHANGED <<ctf_link_inputs, ctf_link_outputs, conflicted, calls, crashed,
                 nlinks, nstrtabs, mapped, nrecords>>

\* The interning attempts a call makes, and the sets of them that may fail.
Attempts(producer) ==
  (1..Len(producer)) \X
    ({SharedFp} \cup {ctf_link_outputs.tab[j].fp : j \in 1..Len(ctf_link_outputs.tab)})
FailedSets(producer) == {F \in SUBSET Attempts(producer) : Cardinality(F) <= 2}

Strtab(producer, failed) ==
  /\ ~crashed
  /\ nstrtabs < MaxStrtabs
  /\ \E r \in {ctf_link_add_strtab(files, ctf_link_outputs, producer, failed)} :
        /\ files' = r.files
        /\ last' = [op |-> "add_strtab", ret |-> r.ret, share_mode |-> 0,
                    fault |-> failed # {}, skipped |-> {}]
  /\ interning' = [producer |-> producer, failed |-> failed]
  /\ nstrtabs' = nstrtabs + 1
  /\ written' = NoWrite
  /\ UNCHANGED <<ctf_link_inputs, ctf_link_outputs, conflicted, calls, crashed, nlinks,
                 mapped, nrecords>>

AddCtfCall ==
  \E name \in FileNames, arc \in Archives, oom \in OomPoints : AddCtf(name, arc, oom)

\* The outcomes worth telling apart for the inputs registered: a read of a
\* NULL container only happens for an input without default member, a read
\* of a freed key only when some input has another member than the default.
RelevantEnvs ==
  LET arcs == {ctf_link_inputs.tab[f] : f \in DOMAIN ctf_link_inputs.tab}
      Names(arc) == {arc.members[i].name : i \in 1..Len(arc.members)}
  IN {e \in Envs :
        /\ e.nullderef = "crash" => \E arc \in arcs : _CTF_SECTION \notin Names(arc)
        /\ e.uaf # "intact" => \E arc \in arcs : Names(arc) # {_CTF_SECTION}}

LinkCall ==
  \E share_mode \in {CTF_LINK_SHARE_UNCONFLICTED, CTF_LINK_SHARE_DUPLICATED},
     order \in Orders(ctf_link_inputs.tab), env \in RelevantEnvs :
    Link(share_mode, order, env)

WriteCall ==
  \E fail \in WriteFails : Write(fail)

Next ==
  \/ AddCtfCall
  \/ LinkCall
  \/ WriteCall

Spec == Init /\ [][Next]_vars

\* The engine with the string interning: inputs are registered and linked
\* without allocation failures, and strings are interned before or after.
AddCtfPlain ==
  \E name \in FileNames, arc \in {ArcS1, ArcS2, ArcCU} : AddCtf(name, arc, "none")

LinkPlain ==
  \E order \in Orders(ctf_link_inputs.tab) :
    Link(CTF_LINK_SHARE_UNCONFLICTED, order,
         [fault |-> "none", uaf |-> "intact", nullderef |-> "empty"])

StrtabCall ==
  \E producer \in Producers : \E failed \in FailedSets(producer) :
    Strtab(producer, failed)

NextStrtab ==
  \/ AddCtfPlain
  \/ LinkPlain
  \/ StrtabCall

SpecStrtab == Init /\ [][NextStrtab]_vars

(* ------------------- the type-mapping index on its own ---------------- *)

\* The source containers: a main member, and a member that has it as its
\* parent.  A source type is the first type of one, parent- or child-scoped.
SrcMain == InFile(<<"a">>, MainMember(<<TT>>, << >>))
SrcCu == [InFile(<<"a">>, CuMember(<<"cu">>, <<TS1>>, << >>)) EXCEPT !.parent = SrcMain.id]
SrcFiles == {SrcMain, SrcCu}
SrcTypes == {LCTF_INDEX_TO_TYPE(1, child) : child \in BOOLEAN}

\* The destination types: the first two of a container, parent- or
\* child-scoped.
DstTypes == {LCTF_INDEX_TO_TYPE(i, child) : i \in 1..2, child \in BOOLEAN}

\* Three destination containers: the second is a child of the first, the
\* third a child of the second.
InitMapping ==
  /\ files = ctf_import(ctf_import(<<EmptyFile, EmptyFile, EmptyFile>>, 2, 1), 3, 2)
  /\ ctf_link_inputs = NullHash
  /\ ctf_link_outputs = NullHash
  /\ last = NoCall
  /\ conflicted = {}
  /\ calls = << >>
  /\ crashed = FALSE
  /\ nlinks = 0
  /\ written = NoWrite
  /\ interning = NoInterning
  /\ nstrtabs = 0
  /\ mapped = NoMapping
  /\ nrecords = 0

\* The key a source (container, type) is held under: the container the type
\* lives in, and the bare index.
SrcKey(src_fp, src_type) ==
  [fp |-> IF LCTF_TYPE_ISPARENT(src_type) /\ src_fp.parent # NULLFP
            THEN src_fp.parent ELSE src_fp.id,
   idx |-> LCTF_TYPE_TO_INDEX(src_type)]

\* The container a destination (container, type) lives in.
NormDst(fs, dst_fp, dst_type) ==
  IF LCTF_TYPE_ISPARENT(dst_type) /\ fs[dst_fp].parent # 0
    THEN fs[dst_fp].parent ELSE dst_fp

\* The value fp's index holds for the key of the source, 0 if none.
Held(fs, fp, src_fp, src_type) ==
  MappingLookup(fs[fp].mapping, SrcKey(src_fp, src_type).fp,
                SrcKey(src_fp, src_type).idx)

\* A call of ctf_add_type_mapping.  (Noted with it: the value the index of
\* the destination the type lives in held for the key before, and whether
\* the index of dst_fp itself held the key before.)
Record(src_fp, src_type, dst_fp, dst_type, oom) ==
  /\ nrecords < MaxRecords
  /\ files' = ctf_add_type_mapping(files, src_fp, src_type, dst_fp, dst_type, oom)
  /\ mapped' = [op |-> "record", src |-> src_fp, st |-> src_type, dst |-> dst_fp,
                dt |-> dst_type, oom |-> oom,
                prev |-> Held(files, NormDst(files, dst_fp, dst_type), src_fp, src_type),
                shadowed |-> Held(files, dst_fp, src_fp, src_type) # 0,
                type |-> 0, dst_fp |-> 0, name |-> "", rc |-> 0]
  /\ nrecords' = nrecords + 1
  /\ UNCHANGED <<ctf_link_inputs, ctf_link_outputs, last, conflicted, calls, crashed,
                 nlinks, written, interning, nstrtabs>>

\* A call of ctf_type_mapping with dst_fp as *dst_fp: what it returns and
\* what it leaves in *dst_fp.
Lookup(src_fp, src_type, dst_fp) ==
  /\ \E r \in {ctf_type_mapping(files, src_fp, src_type, dst_fp)} :
        mapped' = [op |-> "lookup", src |-> src_fp, st |-> src_type, dst |-> dst_fp,
                   dt |-> 0, oom |-> FALSE, prev |-> 0, shadowed |-> FALSE,
                   type |-> r.type, dst_fp |-> r.dst_fp, name |-> "", rc |-> 0]
  /\ UNCHANGED <<files, ctf_link_inputs, ctf_link_outputs, last, conflicted, calls,
                 crashed, nlinks, written, interning, nstrtabs, nrecords>>

RecordCall ==
  \E src_fp \in SrcFiles, src_type \in SrcTypes, dst_fp \in 1..Len(files),
     dst_type \in DstTypes, oom \in BOOLEAN :
    Record(src_fp, src_type, dst_fp, dst_type, oom)

LookupCall ==
  \E src_fp \in SrcFiles, src_type \in SrcTypes, dst_fp \in 1..Len(files) :
    Lookup(src_fp, src_type, dst_fp)

NextMapping ==
  \/ RecordCall
  \/ LookupCall

SpecMapping == InitMapping /\ [][NextMapping]_vars

(* ------------------- the linking of one variable on its own ----------- *)

\* A call of ctf_add_variable on a container.
AddVariable(fp, name, ref) ==
  /\ files' = ctf_add_variable(files, fp, name, ref)
  /\ mapped' = [NoMapping EXCEPT !.op = "add_variable", !.dst = fp, !.dt = ref,
                                 !.name = name]
  /\ UNCHANGED <<ctf_link_inputs, ctf_link_outputs, last, conflicted, calls, crashed,
                 nlinks, written, interning, nstrtabs, nrecords>>

\* A call of ctf_link_one_variable for a variable (name, type) of in_fp,
\* with out_fp as arg->out_fp.
LinkOneVariable(out_fp, in_fp, name, type) ==
  /\ \E r \in {ctf_link_one_variable(
                  [files |-> files, outputs |-> EmptyHash,
                   arg |-> [InitArg(CTF_LINK_SHARE_UNCONFLICTED) EXCEPT
                              !.out_fp = out_fp, !.in_fp = in_fp],
                   conflicted |-> {},
                   calls |-> <<[file |-> in_fp.id.file, name |-> in_fp.id.member,
                                in_fp |-> in_fp.id, in_input_cu_file |-> in_fp.child,
                                rc |-> 0, addfail |-> FALSE, novarmap |-> FALSE]>>,
                   skipped |-> {}, crashed |-> FALSE, rc |-> 0],
                  name, type)} :
        /\ files' = r.files
        /\ mapped' = [NoMapping EXCEPT !.op = "link_one_variable", !.src = in_fp,
                                       !.st = type, !.dst = out_fp, !.name = name,
                                       !.rc = r.rc]
  /\ UNCHANGED <<ctf_link_inputs, ctf_link_outputs, last, conflicted, calls, crashed,
                 nlinks, written, interning, nstrtabs, nrecords>>

\* The destinations recorded here are types the containers may hold; no
\* allocation fails.
RecordPlain ==
  \E src_fp \in SrcFiles, src_type \in SrcTypes, dst_fp \in 1..2,
     dst_type \in DstTypes :
    Record(src_fp, src_type, dst_fp, dst_type, FALSE)

AddVariableCall ==
  \E fp \in 1..2, ref \in DstTypes : AddVariable(fp, "g", ref)

LinkOneVariableCall ==
  \E out_fp \in 1..2, in_fp \in SrcFiles, type \in SrcTypes :
    LinkOneVariable(out_fp, in_fp, "g", type)

NextVariable ==
  \/ RecordPlain
  \/ AddVariableCall
  \/ LinkOneVariableCall

SpecVariable == InitMapping /\ [][NextVariable]_vars

(* ------------------------- vocabulary of the properties ----------------*)

\* The last call was ctf_link_add_ctf and it failed with ECTF_LINKADDEDLATE.
LateAdd(l, f) ==
  l.op = "add_ctf" /\ l.ret = CTF_ERR /\ f[SharedFp].errno = ECTF_LINKADDEDLATE

\* The per-CU output containers: the values of the link output set.
PerCuFps == {ctf_link_outputs.tab[i].fp : i \in 1..Len(ctf_link_outputs.tab)}

\* The output containers: the shared output and the per-CU ones.
OutputFps == {SharedFp} \cup PerCuFps

\* The registered input files, and the members of one.
InputFiles == DOMAIN ctf_link_inputs.tab
MembersOf(file) ==
  {ctf_link_inputs.tab[file].members[i] :
     i \in 1..Len(ctf_link_inputs.tab[file].members)}
HasMain(file) == \E m \in MembersOf(file) : m.name = _CTF_SECTION

\* The registered inputs that can be read (opening the default member does
\* not fail for another reason than its absence), and those whose default
\* member opens.
Readable == {f \in InputFiles : ctf_link_inputs.tab[f].openerr = 0}
MainOpens(file) == HasMain(file) /\ file \in Readable

\* The output containers holding a type structurally equivalent to t.
Holders(t) ==
  {fp \in OutputFps : \E i \in 1..Len(files[fp].types) : files[fp].types[i] = t}

\* The output containers holding a variable of this name.
VarHolders(name) == {fp \in OutputFps : VarLookup(files[fp], name) # 0}

\* The type of variable v of member m of file was added to an output
\* container: one of them maps it.
SourceAdded(file, m, v) ==
  LET src == IF LCTF_TYPE_ISPARENT(v.type) /\ m.name # _CTF_SECTION /\ HasMain(file)
               THEN InHandle(file, _CTF_SECTION)
               ELSE InHandle(file, m.name)
  IN \E fp \in OutputFps :
       MappingLookup(files[fp].mapping, src, LCTF_TYPE_TO_INDEX(v.type)) # 0

\* The last call was a ctf_link in the default mode that returned 0, with no
\* allocation failure.
LinkedOk ==
  /\ last.op = "link" /\ last.share_mode = CTF_LINK_SHARE_UNCONFLICTED
  /\ last.ret = 0 /\ ~last.fault /\ ~crashed

\* The names of the non-main input members that hold a type.
CuMemberNames ==
  {m.name : m \in {x \in UNION {MembersOf(f) : f \in InputFiles} :
                     x.name # _CTF_SECTION /\ Len(x.types) >= 1}}

\* Every input has its main member only, and all hold the same types.
IdenticalMains ==
  /\ InputFiles # {} /\ Readable = InputFiles
  /\ \A f \in InputFiles : \A m \in MembersOf(f) : m.name = _CTF_SECTION
  /\ \A f, g \in InputFiles :
       \A m \in MembersOf(f), n \in MembersOf(g) : m.types = n.types

\* No input type is unnamed.
AllNamed ==
  \A f \in InputFiles : \A m \in MembersOf(f) :
    \A i \in 1..Len(m.types) : m.types[i].name # ""

\* The type count of one input (of all of them, under IdenticalMains).
OneInputTypeCount ==
  Len((CHOOSE m \in UNION {MembersOf(f) : f \in InputFiles} : TRUE).types)

(* ------------------------------ properties ------------------------------ *)

\* C1: whenever the link output set holds at least one per-CU output
\* container, a call of ctf_link_add_ctf fails with ECTF_LINKADDEDLATE and
\* leaves the link input set as it was.
C1_LateAddOncePerCuExists ==
  [][(Len(ctf_link_outputs.tab) >= 1 /\ last'.op = "add_ctf")
       => (LateAdd(last', files') /\ ctf_link_inputs' = ctf_link_inputs)]_vars

C1_Witness ==
  LateAdd(last, files) /\ Len(ctf_link_outputs.tab) >= 1

\* C2 as stated: after a ctf_link that returned 0, whatever the number of
\* registered inputs (none included), the next ctf_link_add_ctf fails with
\* ECTF_LINKADDEDLATE and leaves both sets as they were.
C2_Original ==
  [][(/\ last.op = "link" /\ last.ret = 0 /\ ~last.fault
      /\ last'.op = "add_ctf" /\ ~last'.fault)
       => (/\ LateAdd(last', files')
           /\ ctf_link_inputs' = ctf_link_inputs
           /\ ctf_link_outputs' = ctf_link_outputs)]_vars

\* C2 amended: after a ctf_link that returned 0 with at least one input
\* registered, the next ctf_link_add_ctf fails with ECTF_LINKADDEDLATE and
\* leaves both sets as they were, whether or not a per-CU container exists.
C2_LateAddAfterLinkOfInputs ==
  [][(/\ last.op = "link" /\ last.ret = 0
      /\ ~ctf_link_inputs.null
      /\ last'.op = "add_ctf")
       => (/\ LateAdd(last', files')
           /\ ctf_link_inputs' = ctf_link_inputs
           /\ ctf_link_outputs' = ctf_link_outputs)]_vars

C2_Witness ==
  /\ LateAdd(last, files)
  /\ ~ctf_link_inputs.null
  /\ ~ctf_link_outputs.null /\ Len(ctf_link_outputs.tab) = 0

\* C3: ctf_link in share-duplicated mode over a non-empty link input set
\* returns the ECTF_NOTYET error, never 0.
C3_ShareDuplicatedRejected ==
  (/\ last.op = "link" /\ last.share_mode = CTF_LINK_SHARE_DUPLICATED
   /\ ~ctf_link_inputs.null /\ DOMAIN ctf_link_inputs.tab # {}
   /\ ~last.fault /\ ~crashed)
    => (last.ret # 0 /\ files[SharedFp].errno = ECTF_NOTYET)

\* C4: ctf_link in share-duplicated mode changes nothing: the shared
\* container's types and variables, the link input set and the link output
\* set (its existence included) are as before the call.
C4_ShareDuplicatedMutatesNothing ==
  [][(/\ last'.op = "link" /\ last'.share_mode = CTF_LINK_SHARE_DUPLICATED
      /\ ~last'.fault)
       => (/\ files'[SharedFp].types = files[SharedFp].types
           /\ files'[SharedFp].vars = files[SharedFp].vars
           /\ ctf_link_inputs' = ctf_link_inputs
           /\ ctf_link_outputs' = ctf_link_outputs)]_vars

\* C5: after a link, every type of every input member has a structurally
\* equivalent type in exactly one output container: in the shared output or
\* in one per-CU container, never in two containers and never in none.
C5_EachTypeInExactlyOneOutput ==
  LinkedOk =>
    \A f \in Readable : \A m \in MembersOf(f) : \A i \in 1..Len(m.types) :
      Cardinality(Holders(m.types[i])) = 1

\* C6: after a link, every input variable whose source type was added to an
\* output container is held by exactly one output container.
C6_EachVariableInExactlyOneOutput ==
  LinkedOk =>
    \A f \in Readable : \A m \in MembersOf(f) : \A i \in 1..Len(m.vars) :
      SourceAdded(f, m, m.vars[i]) => Cardinality(VarHolders(m.vars[i].name)) = 1

\* C7: every container of the link output set has the shared output as its
\* parent, the shared output is not in the set, and no container has a
\* per-CU container as its parent.
C7_PerCuParentIsShared ==
  /\ \A fp \in PerCuFps : fp # SharedFp /\ files[fp].parent = SharedFp
  /\ \A fp \in 1..Len(files) : files[fp].parent \notin PerCuFps

C7_Witness ==
  /\ \A f \in InputFiles : HasMain(f)
  /\ \E fp \in PerCuFps : files[fp].parent = SharedFp /\ Len(files[fp].types) >= 1

\* C8 as stated: a per-CU output container exists only under an arcname for
\* which an add to the shared output failed with a conflict (here for inputs
\* that all have a main member).
C8_Original ==
  (\A f \in InputFiles : HasMain(f)) =>
    \A i \in 1..Len(ctf_link_outputs.tab) :
      ctf_link_outputs.tab[i].key \in conflicted

\* C8 amended: a per-CU output container exists only under an arcname for
\* which an add to the shared output failed with a conflict, or under the
\* name of a non-main input member that holds a type.
C8_PerCuOnlyOnConflictOrCuMember ==
  \A i \in 1..Len(ctf_link_outputs.tab) :
    \/ ctf_link_outputs.tab[i].key \in conflicted
    \/ ctf_link_outputs.tab[i].key \in CuMemberNames

C8_Witness ==
  /\ \A f \in InputFiles : HasMain(f)
  /\ \E i \in 1..Len(ctf_link_outputs.tab) :
       /\ ctf_link_outputs.tab[i].key \in CuMemberNames
       /\ ctf_link_outputs.tab[i].key \notin conflicted

\* C9: when an input archive has no main member, the link hands none of its
\* members (and no NULL main container) to the per-member procedure, still
\* processes the main member of every other archive, and returns 0.
C9_ArchiveWithoutMainSkipped ==
  (/\ last.op = "link" /\ last.share_mode = CTF_LINK_SHARE_UNCONFLICTED
   /\ ~last.fault
   /\ \E f \in InputFiles : ~HasMain(f))
    => /\ ~crashed
       /\ \A i \in 1..Len(calls) : calls[i].in_fp # NULLFP /\ HasMain(calls[i].file)
       /\ \A f \in InputFiles :
            MainOpens(f) => \E i \in 1..Len(calls) :
                            calls[i].file = f /\ calls[i].name = _CTF_SECTION
       /\ last.ret = 0

\* C10 as stated: after linking archives that have only a main member and
\* all hold the same types, there is no per-CU container, the shared output
\* holds as many types as one input, and a write that succeeds took the
\* single-container path.
C10_Original ==
  IdenticalMains =>
    /\ Len(ctf_link_outputs.tab) = 0
    /\ LinkedOk => Len(files[SharedFp].types) = OneInputTypeCount
    /\ (last.op = "write" /\ written.buf) => written.path = "single"

\* C10 amended: the same, for inputs none of whose types is unnamed.
C10_IdenticalNamedMainsShareAll ==
  (IdenticalMains /\ AllNamed) =>
    /\ Len(ctf_link_outputs.tab) = 0
    /\ LinkedOk => Len(files[SharedFp].types) = OneInputTypeCount
    /\ (last.op = "write" /\ written.buf) => written.path = "single"

C10_Witness ==
  /\ IdenticalMains /\ AllNamed /\ Cardinality(InputFiles) = 2
  /\ ~ctf_link_outputs.null
  /\ Len(files[SharedFp].types) = OneInputTypeCount /\ OneInputTypeCount >= 2
  /\ last.op = "write" /\ ~last.fault /\ written.buf /\ written.path = "single"

\* C11: a write that succeeds emits the shared container alone when the link
\* output set is absent or empty; otherwise it hands k+1 members to the
\* archive writer for k per-CU containers: the shared container under the
\* name ".ctf" first, then every entry of the link output set once, its
\* container under its own key.
C11_MemberListPairsKeysAndContainers ==
  (last.op = "write" /\ written.buf) =>
    LET tab == ctf_link_outputs.tab
        k == Len(tab)
    IN IF ctf_link_outputs.null \/ k = 0
         THEN written.path = "single" /\ written.files = <<SharedFp>>
         ELSE /\ written.path = "archive"
              /\ Len(written.names) = k + 1 /\ Len(written.files) = k + 1
              /\ written.names[1] = _CTF_SECTION /\ written.files[1] = SharedFp
              /\ \E p \in [1..k -> 1..k] :
                   /\ \A i, j \in 1..k : p[i] = p[j] => i = j
                   /\ \A i \in 1..k : /\ written.names[i + 1] = tab[p[i]].key
                                      /\ written.files[i + 1] = tab[p[i]].fp

C11_Witness ==
  /\ \A f \in InputFiles : HasMain(f)
  /\ last.op = "write" /\ ~last.fault /\ written.buf /\ written.path = "archive"
  /\ Len(written.files) >= 2
  /\ written.files[2] \in PerCuFps

\* C12: a write that succeeds has stored the length of the buffer it
\* returns in the caller's size, on the single-container path and on the
\* archive path.
C12_SizeSetOnSuccess ==
  (last.op = "write" /\ ~last.fault /\ written.buf /\ \A f \in InputFiles : HasMain(f))
    => written.size_set

\* C13: a write that fails returns no buffer, leaves the code of the failure
\* in the shared container's error slot, and has released every list it
\* accumulated, the buffer and the temporary file.
C13_WriteFailureReportedAndReleased ==
  (last.op = "write" /\ last.fault /\ ~written.buf) =>
    /\ last.ret # 0
    /\ files[SharedFp].errno = written.code
    /\ written.leaked = {}
    /\ ~written.tmp_open

\* C14: after ctf_link_add_strtab has drained a producer, the shared output
\* and every per-CU container of the link output set hold every pair the
\* producer yielded (but for an interning whose allocation failed) and are
\* marked dirty; a producer that yields nothing changes no container.
C14_StringsFannedOutToEveryOutput ==
  [][last'.op = "add_strtab" =>
       /\ \A i \in 1..Len(interning'.producer) : \A fp \in OutputFps :
            /\ files'[fp].dirty
            /\ <<i, fp>> \notin interning'.failed
                 => interning'.producer[i] \in files'[fp].strtab
       /\ interning'.producer = << >> => files' = files]_vars

C14_Witness ==
  /\ last.op = "add_strtab" /\ Len(interning.producer) = 2
  /\ PerCuFps # {}
  /\ \A fp \in OutputFps : files[fp].strtab = {Foo, Bar} /\ files[fp].dirty

\* C15: ctf_link_add_strtab returns ENOMEM if and only if an interning
\* failed, and 0 otherwise; a failed interning stops nothing: every later
\* pair is interned in every output container whose interning of it did not
\* fail itself.
C15_InternFailureTaintsOnly ==
  last.op = "add_strtab" =>
    /\ last.ret = (IF interning.failed # {} THEN ENOMEM ELSE 0)
    /\ \A a \in interning.failed :
         \A i \in (a[1] + 1)..Len(interning.producer) : \A fp \in OutputFps :
           <<i, fp>> \notin interning.failed
             => interning.producer[i] \in files[fp].strtab

C15_Witness ==
  /\ last.op = "add_strtab" /\ last.ret = ENOMEM
  /\ interning.failed = {<<1, SharedFp>>} /\ Len(interning.producer) = 2
  /\ PerCuFps # {}
  /\ \A fp \in OutputFps : Bar \in files[fp].strtab

\* C16: after a link, every arcname for which the add of a main member's
\* type to the shared output failed with a conflict has its per-CU container
\* in the link output set: a child of the shared output, its CU name the
\* input file name, holding a type of that input the shared output holds in
\* another shape.
C16_ConflictFallsBackToPerCu ==
  LinkedOk =>
    \A a \in conflicted :
      \E i \in 1..Len(ctf_link_outputs.tab) :
        LET e == ctf_link_outputs.tab[i]
        IN /\ e.key = a
           /\ files[e.fp].parent = SharedFp
           /\ files[e.fp].cuname = SkipPrefix(a, CTF_DOT_PREFIX)
           /\ Len(files[e.fp].types) >= 1

\* The calls of the per-member procedure in which a type add failed for good
\* (not with a conflict in the shared output), and those in which a variable
\* found no mapping of its type in any output container.
AddFailures == {i \in 1..Len(calls) : calls[i].addfail}
UnmappedVariables == {i \in 1..Len(calls) : calls[i].novarmap}

\* C17: a type add that fails for good aborts the link: the member it
\* failed in is the last one processed, and ctf_link returns an error.
C17_TypeAddFailureAbortsLink ==
  (last.op = "link" /\ ~crashed /\ AddFailures # {}) =>
    /\ \A i \in AddFailures : i = Len(calls)
    /\ last.ret # 0

\* C18: when a variable finds no mapping of its type in any output
\* container, ctf_link returns an error and the shared container's error
\* slot holds EINVAL.
C18_UnmappedVariableSurfaced ==
  (last.op = "link" /\ ~crashed /\ UnmappedVariables # {}) =>
    /\ last.ret # 0
    /\ files[SharedFp].errno = EINVAL

\* C19 as stated: when the default member of an input fails to open for
\* another reason than its absence, ctf_link returns an error and processes
\* no member of any input after it.
C19_Original ==
  (last.op = "link" /\ ~last.fault /\ ~crashed /\ last.skipped # {}) =>
    /\ last.ret # 0
    /\ \A s \in last.skipped : Len(calls) = s.at

\* C19 amended: such an input is skipped: none of its members is processed,
\* the other inputs are processed, and it does not make ctf_link fail.
C19_UnopenableArchiveSkipped ==
  (last.op = "link" /\ ~last.fault /\ ~crashed /\ ~ctf_link_outputs.null
   /\ InputFiles # Readable) =>
    /\ last.skipped # {}
    /\ \A f \in InputFiles : f \notin Readable <=> \E s \in last.skipped : s.file = f
    /\ \A i \in 1..Len(calls) : calls[i].file \in Readable
    /\ \A f \in Readable : \E i \in 1..Len(calls) : calls[i].file = f
    /\ (\A i \in 1..Len(calls) : calls[i].rc >= 0) => last.ret = 0

C19_Witness ==
  /\ last.op = "link" /\ ~last.fault /\ ~crashed /\ last.ret = 0
  /\ \E s \in last.skipped : s.at = 0 /\ Len(calls) >= 1
  /\ \A g \in Readable : MainOpens(g)

\* The members of an input in the order the link is to process them: the
\* default member first, then the others in archive order, with the
\* in_input_cu_file flag each is to be processed under.
ExpectedCalls(f) ==
  LET ms == ctf_link_inputs.tab[f].members
      Rest(s) == SelectSeq(s, LAMBDA m : m.name # _CTF_SECTION)
  IN <<[name |-> _CTF_SECTION, in_fp |-> InHandle(f, _CTF_SECTION),
        in_input_cu_file |-> FALSE]>>
     \o [i \in 1..Len(Rest(ms)) |->
           [name |-> Rest(ms)[i].name, in_fp |-> InHandle(f, Rest(ms)[i].name),
            in_input_cu_file |-> TRUE]]

\* The calls of the per-member procedure made for input f, in order.
CallsOf(f) ==
  LET cf == SelectSeq(calls, LAMBDA c : c.file = f)
  IN [i \in 1..Len(cf) |-> [name |-> cf[i].name, in_fp |-> cf[i].in_fp,
                            in_input_cu_file |-> cf[i].in_input_cu_file]]

\* C20: for every input whose default member opens, the link processes the
\* default member once and first, with the in_input_cu_file flag clear, and
\* then the other members in archive order with the flag set (up to a member
\* whose processing fails, all of them if none does).
C20_MainMemberFirstThenArchiveOrder ==
  (last.op = "link" /\ ~crashed /\ ~ctf_link_outputs.null) =>
    \A f \in InputFiles :
      MainOpens(f) =>
        /\ Len(CallsOf(f)) >= 1
        /\ Len(CallsOf(f)) <= Len(ExpectedCalls(f))
        /\ CallsOf(f) = SubSeq(ExpectedCalls(f), 1, Len(CallsOf(f)))
        /\ (\A i \in 1..Len(calls) :
              (calls[i].file = f /\ calls[i].name # _CTF_SECTION) => calls[i].rc = 0)
             => Len(CallsOf(f)) = Len(ExpectedCalls(f))

C20_Witness ==
  /\ last.op = "link" /\ ~last.fault /\ ~crashed
  /\ Cardinality(InputFiles) = 2
  /\ \A f \in InputFiles : MainOpens(f)
  /\ Len(calls) >= 4
  /\ calls[1].name = _CTF_SECTION /\ calls[2].in_input_cu_file
  /\ calls[3].in_input_cu_file
  /\ calls[4].name = _CTF_SECTION /\ ~calls[4].in_input_cu_file

\* C21 as stated: after ctf_add_type_mapping has recorded (src_fp, src_type)
\* as (dst_fp, dst_type) without allocation failure, ctf_type_mapping of
\* (src_fp, src_type) with dst_fp as hint returns a non-zero type and the
\* container the destination type lives in, with the same bare index, the
\* type child-scoped exactly when that container has a parent.
C21_Original ==
  (mapped.op = "record" /\ ~mapped.oom) =>
    LET r == ctf_type_mapping(files, mapped.src, mapped.st, mapped.dst)
    IN /\ r.type # 0
       /\ r.dst_fp = NormDst(files, mapped.dst, mapped.dt)
       /\ LCTF_TYPE_TO_INDEX(r.type) = LCTF_TYPE_TO_INDEX(mapped.dt)
       /\ ~LCTF_TYPE_ISPARENT(r.type) <=> files[r.dst_fp].parent # 0

\* C21 amended: the same, unless the destination type lives in the parent of
\* dst_fp while the index of dst_fp itself already held the source key (the
\* lookup then returns what dst_fp holds); a record for a key the index
\* already holds replaces the value.
C21_RecordThenLookup ==
  (/\ mapped.op = "record" /\ ~mapped.oom
   /\ (NormDst(files, mapped.dst, mapped.dt) = mapped.dst \/ ~mapped.shadowed)) =>
    LET r == ctf_type_mapping(files, mapped.src, mapped.st, mapped.dst)
        n == NormDst(files, mapped.dst, mapped.dt)
    IN /\ r.type # 0
       /\ r.dst_fp = n
       /\ LCTF_TYPE_TO_INDEX(r.type) = LCTF_TYPE_TO_INDEX(mapped.dt)
       /\ ~LCTF_TYPE_ISPARENT(r.type) <=> files[r.dst_fp].parent # 0
       /\ Held(files, n, mapped.src, mapped.st) = LCTF_TYPE_TO_INDEX(mapped.dt)

C21_Witness ==
  /\ mapped.op = "record" /\ ~mapped.oom /\ ~mapped.shadowed
  /\ NormDst(files, mapped.dst, mapped.dt) # mapped.dst
  /\ mapped.prev # 0 /\ mapped.prev # LCTF_TYPE_TO_INDEX(mapped.dt)
  /\ ctf_type_mapping(files, mapped.src, mapped.st, mapped.dst)
       = [type |-> mapped.dt, dst_fp |-> files[mapped.dst].parent]

\* C22: ctf_type_mapping returns the entry of the hinted container, and the
\* hint as *dst_fp, whenever the hint's index holds the source key, even if
\* its parent holds it too; when the hint misses and has a parent it returns
\* the parent's entry (if any) and the parent as *dst_fp; it returns 0 if
\* and only if neither the hint nor its parent (when there is one) holds the
\* key, whatever a grandparent holds.
C22_HintBeforeParent ==
  mapped.op = "lookup" =>
    LET h == mapped.dst
        p == files[h].parent
        inHint == Held(files, h, mapped.src, mapped.st)
        inParent == IF p # 0 THEN Held(files, p, mapped.src, mapped.st) ELSE 0
    IN /\ inHint # 0 =>
            /\ mapped.dst_fp = h
            /\ mapped.type = LCTF_INDEX_TO_TYPE(inHint, p # 0)
       /\ (inHint = 0 /\ p # 0) =>
            /\ mapped.dst_fp = p
            /\ inParent # 0 =>
                 mapped.type = LCTF_INDEX_TO_TYPE(inParent, files[p].parent # 0)
       /\ mapped.type = 0 <=> (inHint = 0 /\ inParent = 0)

C22_Witness ==
  /\ mapped.op = "lookup" /\ mapped.dst = 2
  /\ Held(files, 2, mapped.src, mapped.st) = 1
  /\ Held(files, 1, mapped.src, mapped.st) = 2
  /\ mapped.type = LCTF_INDEX_TO_TYPE(1, TRUE) /\ mapped.dst_fp = 2

\* C23: when ctf_link_one_variable runs on an output that has a parent, the
\* type of the variable is mapped in the parent and the parent holds a
\* variable of this name bound to another type, the variable is added to the
\* output itself, bound to the mapped type of the parent, and the parent's
\* variables are left as they were.
C23_ConflictingVariableGoesToChild ==
  [][LET out == mapped'.dst
         p == files[out].parent
         m == ctf_type_mapping(files, mapped'.src, mapped'.st, p)
     IN (/\ mapped'.op = "link_one_variable"
         /\ p # 0 /\ files[p].parent = 0
         /\ m.type # 0 /\ m.dst_fp = p
         /\ VarLookup(files[p], mapped'.name) \notin {0, m.type}
         /\ VarLookup(files[out], mapped'.name) = 0)
          => (/\ mapped'.rc = 0
              /\ VarLookup(files'[out], mapped'.name) = m.type
              /\ files'[p].vars = files[p].vars)]_vars

\* C24: for a member all of whose type adds succeeded (the variables of a
\* member are only reached then), ctf_link_one_variable never returns EINVAL:
\* no call of the per-member procedure ends with it.
C24_NoInvalidMappingAfterTypesAdded ==
  (/\ last.op = "link" /\ last.share_mode = CTF_LINK_SHARE_UNCONFLICTED
   /\ ~last.fault /\ ~crashed
   /\ \A f \in InputFiles : MainOpens(f)) =>
    \A i \in 1..Len(calls) : ~calls[i].addfail => calls[i].rc # EINVAL

\* C25: a ctf_link_add_ctf that fails with ENOMEM leaves the link input set
\* as it was.
C25_FailedAddKeepsInputs ==
  [][(/\ last'.op = "add_ctf" /\ last'.ret = CTF_ERR
      /\ files'[SharedFp].errno = ENOMEM)
       => ctf_link_inputs' = ctf_link_inputs]_vars

\* C26: every key of the link output set is a live string: none has been
\* released while its entry is in the set (here after a link without
\* allocation failure, of inputs whose default member opens).
C26_OutputKeysAlive ==
  (/\ last.op = "link" /\ ~last.fault /\ ~crashed
   /\ \A f \in InputFiles : MainOpens(f)) =>
    \A i \in 1..Len(ctf_link_outputs.tab) : ctf_link_outputs.tab[i].live

\* C27: no temporary file opened by ctf_link_write is open once it has
\* returned, whether it succeeded or failed.
C27_TemporaryFileClosed ==
  (last.op = "write" /\ (~last.fault \/ ~written.buf)) => ~written.tmp_open

\* C28: no key of the link output set is ".ctf", so a member list built by
\* ctf_link_write holds the name ".ctf" once, in front.
C28_ReservedNameOnlyInFront ==
  /\ \A i \in 1..Len(ctf_link_outputs.tab) : ctf_link_outputs.tab[i].key # _CTF_SECTION
  /\ (last.op = "write" /\ written.buf /\ written.path = "archive") =>
       /\ written.names[1] = _CTF_SECTION
       /\ \A i \in 2..Len(written.names) : written.names[i] # _CTF_SECTION

C28_Witness ==
  /\ \A f \in InputFiles : HasMain(f)
  /\ \E f \in InputFiles :
       \E m \in MembersOf(f) : m.name = _CTF_SECTION /\ Cardinality(MembersOf(f)) >= 3
  /\ last.op = "write" /\ ~last.fault /\ written.buf /\ written.path = "archive"
  /\ Len(written.names) >= 3
  /\ written.names[1] = _CTF_SECTION

=============================================================================
